---- MODULE Spec2Model ----
(***************************************************************************)
(* Week ledger of controle-financeiro-semanal: FinanceService (week        *)
(* lifecycle, transaction attribution, closing) over DatesService (date    *)
(* arithmetic) and the key/value StorageService.                           *)
(*                                                                         *)
(* Time is counted in hours since the local midnight of day 0, which is a  *)
(* Sunday.  An instant is an integer t: its local calendar day is          *)
(* t \div 24 and its local hour is t % 24.  The last hour slot of a day    *)
(* (hour 23) stands for 23:59:59.999.                                      *)
(***************************************************************************)
EXTENDS Integers, Sequences, FiniteSets, TLC

(***************************************************************************)
(* Bounds of the model.                                                    *)
(***************************************************************************)
MaxDay == 15                \* the clock stops advancing after this day
MaxTx == 2                  \* transactions created in one behaviour
MaxWeekIds == 4             \* week ids generated in one behaviour

InitialInstants == {14 * 24 + 9}  \* the clock starts on a Sunday at 09:00
ClockHours == {9, 12, 15}   \* hours of the day at which the clock is observed
TzOffsets == {-3, 2}        \* local time = UTC + offset (hours)
TxDays == {12, 14, 23}      \* calendar days typed in the form
\* form inputs <<description, amount, date>> that pass validation (a rejected
\* input writes nothing to the store)
TxInputs == {<<(<<"a", " ">>), 5, d>> : d \in TxDays}
DaysOfWeek == {0, 1}        \* weekdays offered to setAutoCloseConfig
ConfigHours == {12}         \* hours offered to setAutoCloseConfig

NULL == -1                  \* null for instants and date strings
NoId == 0                   \* null for week ids and transaction ids

WeeklyLimits == {NULL, 7}   \* limits offered to setWeeklyLimit
Queries == {"transactions", "total", "exceeded", "usage"}
HistoryLimits == {1, 2, 10} \* limits given to getWeeksHistory

NaN == 0 - 1000             \* the number NaN
NonNumericText == 0 - 1001  \* a string that is not a number, such as 'abc'
\* values given to setWeeklyLimit, and amounts of the entries it is used with
LimitInputs == {NULL, NaN, NonNumericText, 0 - 3, 0, 7, 10, 200}
LimitAmounts == {3, 4, 7, 80, 130, NonNumericText}
Unparseable == 0 - 2        \* a date string that names no date, such as 'x'
\* values given to createTransaction: empty, blank and filled descriptions,
\* missing, zero, negative, NaN, non-numeric and positive amounts, missing,
\* unparseable and valid date strings
FormDescriptions == {<<>>, <<" ">>, <<"a", " ">>}
FormAmounts == {NULL, 0, 0 - 3, NaN, NonNumericText, 5}
FormDates == {NULL, Unparseable, 12, 14}
\* dates and weekdays given to getNextDayOfWeekAfter: every weekday, at
\* midnight, in the morning, at noon and in the last hour of the day
DateInstants == {d * 24 + h : d \in 7..13, h \in {0, 9, 12, 23}}
AllDaysOfWeek == 0..6
\* arguments of isDateInCurrentWeekPeriod: dates around a period whose start
\* and end carry several times of day
PeriodDates == {d * 24 + h : d \in 7..13, h \in {0, 12, 23}}
PeriodStarts == {d * 24 + h : d \in {8, 9}, h \in {0, 15}}
PeriodEnds == {d * 24 + h : d \in {11, 12}, h \in {0, 23}}

VARIABLES
  now,            \* wall clock (new Date()), hours since day 0 00:00 local
  tz,             \* timezone offset of the browser, hours east of UTC
  transactions,   \* finance_transactions: sequence of transaction records
  closedWeeks,    \* finance_closed_weeks: sequence of week ids
  mapping,        \* finance_week_id_mapping: insertion-ordered id -> date key
  cwStart,        \* finance_current_week_start: instant or NULL
  cwId,           \* finance_current_week_id: week id or NoId
  nextClose,      \* finance_next_close_date: instant or NULL
  config,         \* finance_auto_close_config
  weeklyLimit,    \* finance_weekly_limit: amount or NULL
  nextId,         \* next week id generateWeekId will return
  nextTxId,       \* next transaction id
  router,         \* AuthService session and Router: page shown, loads in flight
  lastOutcome     \* history of the last step: "manual" or "auto" when it was
                  \* a close that returned true ("manualAgain": a manual
                  \* close that returned true right after another),
                  \* "autoOff" when it was a checkAndAutoCloseWeek due by
                  \* weekday and hour with the schedule disabled, the error
                  \* when it threw, else "none"

vars == <<now, tz, transactions, closedWeeks, mapping, cwStart, cwId,
          nextClose, config, weeklyLimit, nextId, nextTxId, router,
          lastOutcome>>

(***************************************************************************)
(* The persisted store as one value, threaded through the operations.      *)
(***************************************************************************)
Store == [transactions |-> transactions, closedWeeks |-> closedWeeks,
          mapping |-> mapping, cwStart |-> cwStart, cwId |-> cwId,
          nextClose |-> nextClose, config |-> config,
          weeklyLimit |-> weeklyLimit,
          nextId |-> nextId, nextTxId |-> nextTxId]

(***************************************************************************)
(* JavaScript numbers: conversion and comparison with NaN.                 *)
(***************************************************************************)
\* Number(v) for a number or a string
ToNumber(v) == IF v \in {NaN, NonNumericText} THEN NaN ELSE v

\* the global isNaN(v)
IsNaN(v) == ToNumber(v) = NaN

\* parseFloat(v)
ParseFloat(v) == ToNumber(v)

\* a <= b: false when either operand converts to NaN
JsLessEq(a, b) == ~IsNaN(a) /\ ~IsNaN(b) /\ ToNumber(a) <= ToNumber(b)

\* !v for a number, a string that is not a number, or a missing value
Falsy(v) == v \in {NULL, 0, NaN}

\* The value read back after JSON.stringify and JSON.parse: NaN becomes null
JsonNumber(v) == IF v = NaN THEN NULL ELSE v

\* sum + v: null converts to 0
Plus(sum, v) == IF v = NULL THEN sum ELSE sum + v

(***************************************************************************)
(* JavaScript Date arithmetic.                                             *)
(***************************************************************************)
DayOf(t) == t \div 24
SetHours(t, h) == DayOf(t) * 24 + h
Midnight(t) == SetHours(t, 0)
EndOfDay(t) == SetHours(t, 23)
GetDay(t) == DayOf(t) % 7
AddDays(t, n) == t + 24 * n
\* date.toISOString().split('T')[0]: the UTC calendar day of the instant
ToISODateKey(t) == (t - tz) \div 24
\* new Date(dateKey + 'T00:00:00'): local midnight of the named day
ParseLocalDate(key) == key * 24

(***************************************************************************)
(* DatesService                                                            *)
(***************************************************************************)
\* Mutant: the week starts on Monday
GetWeekStart_Monday(t) == Midnight(AddDays(t, 1 - GetDay(t)))

GetWeekStart(t) == Midnight(AddDays(t, 0 - GetDay(t)))

GetWeekEnd(t) == EndOfDay(AddDays(GetWeekStart(t), 6))

\* Mutant: the day of the end is outside
IsDateInCurrentWeekPeriod_EndExclusive(date, weekStart, weekEnd) ==
  /\ Midnight(date) >= Midnight(weekStart)
  /\ Midnight(date) < Midnight(weekEnd)

IsDateInCurrentWeekPeriod(date, weekStart, weekEnd) ==
  /\ Midnight(date) >= Midnight(weekStart)
  /\ Midnight(date) <= EndOfDay(weekEnd)

IsDayOfWeek(date, dayOfWeek) == GetDay(date) = dayOfWeek

\* Mutant: a date already on the weekday is answered with that same day
GetNextDayOfWeekAfter_SameDay(date, dayOfWeek) ==
  LET diff0 == dayOfWeek - GetDay(date)
      diff == IF diff0 < 0 THEN diff0 + 7 ELSE diff0
  IN SetHours(AddDays(date, diff), 12)

GetNextDayOfWeekAfter(date, dayOfWeek) ==
  LET diff0 == dayOfWeek - GetDay(date)
      diff == IF diff0 <= 0 THEN diff0 + 7 ELSE diff0
  IN SetHours(AddDays(date, diff), 12)

(***************************************************************************)
(* FinanceService: week ids and the weekId -> start date mapping.          *)
(* An operation on the store returns [s |-> store after, val |-> result].  *)
(***************************************************************************)
Today == Midnight(now)

\* generateWeekId(): 'week_' + time + random, a new string on every call
GenerateWeekId(s) == [s |-> [s EXCEPT !.nextId = @ + 1], val |-> s.nextId]

MappingHasId(m, weekId) == \E i \in 1..Len(m) : m[i].id = weekId

MappingGet(m, weekId) ==
  IF MappingHasId(m, weekId)
  THEN m[CHOOSE i \in 1..Len(m) : m[i].id = weekId].date
  ELSE NULL

\* Mutant: the write replaces the stored object by one with the new entry only
MappingSet_DropsOthers(m, weekId, dateKey) ==
  <<[id |-> weekId, date |-> dateKey]>>

\* mapping[weekId] = dateKey on a JS object: overwrite in place or append
MappingSet(m, weekId, dateKey) ==
  IF MappingHasId(m, weekId)
  THEN [i \in 1..Len(m) |->
          IF m[i].id = weekId THEN [id |-> weekId, date |-> dateKey] ELSE m[i]]
  ELSE Append(m, [id |-> weekId, date |-> dateKey])

\* Mutant: the lookup by date is skipped, every call makes a new week id
GetOrCreateWeekId_AlwaysNew(s, weekStartDate) ==
  LET g == GenerateWeekId(s)
  IN [s |-> [g.s EXCEPT !.mapping =
                MappingSet(@, g.val, ToISODateKey(weekStartDate))],
      val |-> g.val]

GetOrCreateWeekId(s, weekStartDate) ==
  LET dateKey == ToISODateKey(weekStartDate)
      hits == {i \in 1..Len(s.mapping) : s.mapping[i].date = dateKey}
  IN IF hits # {}
     THEN [s |-> s,
           val |-> s.mapping[CHOOSE i \in hits : \A j \in hits : i <= j].id]
     ELSE LET g == GenerateWeekId(s)
          IN [s |-> [g.s EXCEPT !.mapping = MappingSet(@, g.val, dateKey)],
              val |-> g.val]

GetWeekStartDateById(s, weekId) ==
  LET dateString == MappingGet(s.mapping, weekId)
  IN IF dateString = NULL THEN NULL ELSE ParseLocalDate(dateString)

GetNextCloseDate(s) == s.nextClose

GetCurrentWeekStart(s) == s.cwStart

GetCurrentWeekStartDate(s) ==
  IF GetCurrentWeekStart(s) # NULL THEN GetCurrentWeekStart(s)
  ELSE IF GetNextCloseDate(s) = NULL THEN GetWeekStart(now)
  ELSE LET weekStart == Midnight(AddDays(GetNextCloseDate(s), 0 - 7))
       IN IF weekStart > Today THEN weekStart ELSE Today

\* Mutant: a stored id is returned without looking it up in the mapping
GetCurrentWeekId_TrustsStored(s) ==
  IF s.cwId # NoId
  THEN [s |-> s, val |-> s.cwId]
  ELSE LET r == GetOrCreateWeekId(s, GetCurrentWeekStartDate(s))
       IN [s |-> [r.s EXCEPT !.cwId = r.val], val |-> r.val]

\* Mutant: the start date the id is derived from is stored with it
GetCurrentWeekId_StoresStart(s) ==
  LET storedWeekId == s.cwId
      weekStart == GetWeekStartDateById(s, storedWeekId)
  IN IF /\ storedWeekId # NoId
        /\ weekStart # NULL
        /\ weekStart = GetCurrentWeekStartDate(s)
     THEN [s |-> s, val |-> storedWeekId]
     ELSE LET r == GetOrCreateWeekId(s, GetCurrentWeekStartDate(s))
          IN [s |-> [r.s EXCEPT !.cwId = r.val,
                                !.cwStart = GetCurrentWeekStartDate(s)],
              val |-> r.val]

GetCurrentWeekId(s) ==
  LET storedWeekId == s.cwId
      weekStart == GetWeekStartDateById(s, storedWeekId)
  IN IF /\ storedWeekId # NoId
        /\ weekStart # NULL
        /\ weekStart = GetCurrentWeekStartDate(s)
     THEN [s |-> s, val |-> storedWeekId]
     ELSE LET r == GetOrCreateWeekId(s, GetCurrentWeekStartDate(s))
          IN [s |-> [r.s EXCEPT !.cwId = r.val], val |-> r.val]

GetCurrentWeekEndDate(s) ==
  IF GetNextCloseDate(s) = NULL THEN GetWeekEnd(now)
  ELSE LET weekStart == GetCurrentWeekStartDate(s)
           nextCloseEnd == EndOfDay(GetNextCloseDate(s))
       IN IF nextCloseEnd < weekStart THEN GetWeekEnd(weekStart)
          ELSE nextCloseEnd

SeqContains(seq, x) == \E i \in 1..Len(seq) : seq[i] = x

GetClosedWeeks(s) == s.closedWeeks

IsWeekClosed(s, weekId) == SeqContains(GetClosedWeeks(s), weekId)

GetAutoCloseConfig(s) == s.config

\* setNextCloseDate(date): throws unless date is on config.dayOfWeek and
\* after today; val is "ok" or the error
SetNextCloseDate(s, date) ==
  LET dayOfWeek == GetAutoCloseConfig(s).dayOfWeek
  IN IF ~IsDayOfWeek(date, dayOfWeek)
     THEN [s |-> s, val |-> "WrongDayError"]
     ELSE IF Midnight(date) <= Today
     THEN [s |-> s, val |-> "NotFutureError"]
     ELSE [s |-> [s EXCEPT !.nextClose = date], val |-> "ok"]

\* setCurrentWeekStart(date, weekId)
SetCurrentWeekStart(s, date, weekId) ==
  LET dateToSet == Midnight(date)
      s1 == [s EXCEPT !.cwStart = dateToSet]
  IN IF weekId # NoId
     THEN [s1 EXCEPT !.cwId = weekId]
     ELSE LET r == GetOrCreateWeekId(s1, dateToSet)
          IN [r.s EXCEPT !.cwId = r.val]

(***************************************************************************)
(* FinanceService.createTransaction / removeTransaction                    *)
(***************************************************************************)
RECURSIVE TrimLeft(_)
TrimLeft(str) ==
  IF str # <<>> /\ Head(str) = " " THEN TrimLeft(Tail(str)) ELSE str

RECURSIVE TrimRight(_)
TrimRight(str) ==
  IF str # <<>> /\ str[Len(str)] = " "
  THEN TrimRight(SubSeq(str, 1, Len(str) - 1))
  ELSE str

\* String.prototype.trim
Trim(str) == TrimRight(TrimLeft(str))

\* DatesService.parseDate(dateString): local midnight of the day typed
ParseDate(dateString) == ParseLocalDate(dateString)

GetAllTransactions(s) == s.transactions

\* Mutant: the today-or-future rule is missing
AttributionRule_NoTodayRule(isTodayOrFuture, currentClosed, isInCurrentWeekPeriod, isStandardWeekClosed) ==
  IF isInCurrentWeekPeriod THEN 3
  ELSE IF isStandardWeekClosed THEN 4
  ELSE 5

\* Mutant: the redirection of entries of a closed standard week is missing
AttributionRule_NoClosedRedirect(isTodayOrFuture, currentClosed, isInCurrentWeekPeriod, isStandardWeekClosed) ==
  IF isTodayOrFuture /\ ~currentClosed THEN 2
  ELSE IF isInCurrentWeekPeriod THEN 3
  ELSE 5

\* The attribution rule of createTransaction (lines 130-145): 2 = today or
\* future, 3 = inside the current period, 4 = standard week closed,
\* 5 = standard week.
AttributionRule(isTodayOrFuture, currentClosed, isInCurrentWeekPeriod, isStandardWeekClosed) ==
  IF isTodayOrFuture /\ ~currentClosed THEN 2
  ELSE IF isInCurrentWeekPeriod THEN 3
  ELSE IF isStandardWeekClosed THEN 4
  ELSE 5

\* Mutant: the rejection is made only for dates the today-or-future rule
\* does not cover
RejectsClosedCurrentWeek_PastOnly(s, currentWeekId, date) ==
  IsWeekClosed(s, currentWeekId) /\ Midnight(date) < Today

\* The closed-week rejection of createTransaction (lines 106-109)
RejectsClosedCurrentWeek(s, currentWeekId, date) ==
  IsWeekClosed(s, currentWeekId)

\* val: "created" or the error thrown; weekId, rule: the attribution made
CreateTransaction(s, description, amount, dateString) ==
  LET fail(st, err) == [s |-> st, val |-> err, weekId |-> NoId, rule |-> 0]
  IN
  IF description = <<>> \/ Trim(description) = <<>>
  THEN fail(s, "ValidationError")
  ELSE IF Falsy(amount) \/ JsLessEq(amount, 0)
  THEN fail(s, "ValidationError")
  ELSE IF dateString = NULL
  THEN fail(s, "ValidationError")
  ELSE
  LET date == ParseDate(dateString)
      currentWeekStart == GetCurrentWeekStartDate(s)
      currentWeekEnd == GetCurrentWeekEndDate(s)
      cur == GetCurrentWeekId(s)
      currentWeekId == cur.val
  IN
  IF RejectsClosedCurrentWeek(cur.s, currentWeekId, date)
  THEN fail(cur.s, "ClosedWeekError")
  ELSE IF dateString = Unparseable
  THEN fail(cur.s, "RangeError")    \* toISOString of an invalid date
  ELSE
  LET standardWeekStart == GetWeekStart(date)
      std == GetOrCreateWeekId(cur.s, standardWeekStart)
      standardWeekId == std.val
      s2 == std.s
      isInCurrentWeekPeriod ==
        IsDateInCurrentWeekPeriod(date, currentWeekStart, currentWeekEnd)
      isStandardWeekClosed == IsWeekClosed(s2, standardWeekId)
      isTodayOrFuture == Midnight(date) >= Today
      rule == AttributionRule(isTodayOrFuture, IsWeekClosed(s2, currentWeekId),
                              isInCurrentWeekPeriod, isStandardWeekClosed)
      weekId == IF rule = 5 THEN standardWeekId ELSE currentWeekId
      transaction == [id |-> s2.nextTxId,
                      description |-> Trim(description),
                      amount |-> JsonNumber(ParseFloat(amount)),
                      date |-> date,
                      weekId |-> weekId,
                      rule |-> rule]
  IN [s |-> [s2 EXCEPT !.transactions = Append(GetAllTransactions(s2), transaction),
                       !.nextTxId = @ + 1],
      val |-> "created", weekId |-> weekId, rule |-> rule]

\* Mutant: the entries of the same week go with the one removed
RemoveTransaction_WholeWeek(s, transactionId) ==
  LET target(t) == t.id = transactionId
      found == SelectSeq(GetAllTransactions(s), target)
      keep(t) == found = <<>> \/ t.weekId # found[1].weekId
      filtered == SelectSeq(GetAllTransactions(s), keep)
  IN [s |-> [s EXCEPT !.transactions = filtered],
      val |-> Len(filtered) < Len(GetAllTransactions(s))]

\* val: true when a transaction was removed
RemoveTransaction(s, transactionId) ==
  LET keep(t) == t.id # transactionId
      filtered == SelectSeq(GetAllTransactions(s), keep)
  IN [s |-> [s EXCEPT !.transactions = filtered],
      val |-> Len(filtered) < Len(GetAllTransactions(s))]

(***************************************************************************)
(* FinanceService: queries on the current week and the weekly limit.       *)
(* The queries write too: getCurrentWeekId stores the id it derives and    *)
(* getOrCreateWeekId adds the mapping entry it lacks.                      *)
(***************************************************************************)
IsTransactionInClosedWeek(s, transaction) ==
  IF IsWeekClosed(s, transaction.weekId) THEN [s |-> s, val |-> TRUE]
  ELSE LET r == GetOrCreateWeekId(s, GetWeekStart(transaction.date))
       IN [s |-> r.s, val |-> IsWeekClosed(r.s, r.val)]

\* Mutant: the current week too is listed by weekId alone
GetTransactionsByWeek_ByIdOnly(s, weekId) ==
  LET byId(t) == t.weekId = weekId
  IN [s |-> GetCurrentWeekId(s).s, val |-> SelectSeq(GetAllTransactions(s), byId)]

GetTransactionsByWeek(s, weekId) ==
  LET txs == GetAllTransactions(s)
      cur == GetCurrentWeekId(s)
      currentWeekStart == GetCurrentWeekStartDate(cur.s)
      currentWeekEnd == GetCurrentWeekEndDate(cur.s)
      keep(p, t) == [s |-> p.s, val |-> Append(p.val, t)]
      drop(p, st) == [s |-> st, val |-> p.val]
      \* the filter callback on entry t, after the entries before it gave p
      visit(p, t) ==
        LET c == IsTransactionInClosedWeek(p.s, t)
            c2 == IsTransactionInClosedWeek(c.s, t)
        IN IF t.weekId = weekId
           THEN IF IsWeekClosed(p.s, t.weekId) THEN p ELSE keep(p, t)
           ELSE IF c.val THEN drop(p, c.s)
           ELSE IF IsDateInCurrentWeekPeriod(t.date, currentWeekStart,
                                             currentWeekEnd)
           THEN IF c2.val THEN drop(p, c2.s)
                ELSE [s |-> c2.s, val |-> Append(p.val, t)]
           ELSE drop(p, c.s)
      F[i \in 0..Len(txs)] ==
        IF i = 0 THEN [s |-> cur.s, val |-> <<>>]
        ELSE CHOOSE r \in {visit(p, txs[i]) : p \in {F[i - 1]}} : TRUE
      byId(t) == t.weekId = weekId
  IN IF weekId = cur.val THEN F[Len(txs)]
     ELSE [s |-> cur.s, val |-> SelectSeq(txs, byId)]

\* Mutant: the closed current week is not zeroed, its entries are listed
GetCurrentWeekTransactions_NoClosedCheck(s) ==
  LET cur == GetCurrentWeekId(s)
      byId(t) == t.weekId = cur.val
  IN [s |-> cur.s, val |-> SelectSeq(GetAllTransactions(cur.s), byId)]

GetCurrentWeekTransactions(s) ==
  LET \* the second filter, over the entries getTransactionsByWeek returned
      refilter(currentWeekId, byWeek) ==
        LET txs == byWeek.val
            \* the filter callback on entry t, after the entries before it
            \* gave p
            visit(p, t) ==
              LET c == IsTransactionInClosedWeek(p.s, t)
              IN IF t.weekId = currentWeekId
                 THEN [s |-> p.s, val |-> Append(p.val, t)]
                 ELSE IF c.val THEN [s |-> c.s, val |-> p.val]
                 ELSE [s |-> c.s, val |-> Append(p.val, t)]
            F[i \in 0..Len(txs)] ==
              IF i = 0 THEN [s |-> byWeek.s, val |-> <<>>]
              ELSE CHOOSE r \in {visit(p, txs[i]) : p \in {F[i - 1]}} : TRUE
        IN F[Len(txs)]
      listed(cur) ==
        IF IsWeekClosed(cur.s, cur.val) THEN [s |-> cur.s, val |-> <<>>]
        ELSE CHOOSE r \in {refilter(cur.val, byWeek) :
                             byWeek \in {GetTransactionsByWeek(cur.s, cur.val)}} :
               TRUE
  IN CHOOSE r \in {listed(cur) : cur \in {GetCurrentWeekId(s)}} : TRUE

RECURSIVE CalculateTotal(_)
CalculateTotal(txs) ==
  IF txs = <<>> THEN 0 ELSE Plus(CalculateTotal(Tail(txs)), Head(txs).amount)

GetCurrentWeekTotal(s) ==
  [GetCurrentWeekTransactions(s) EXCEPT !.val = CalculateTotal(@)]

GetWeeklyLimit(s) ==
  IF s.weeklyLimit # NULL THEN ParseFloat(s.weeklyLimit) ELSE NULL

\* Mutant: a value that is not a number is not looked for
SetWeeklyLimit_NoNaNCheck(s, limit) ==
  IF limit # NULL /\ JsLessEq(limit, 0) THEN [s |-> s, val |-> "ValidationError"]
  ELSE [s |-> [s EXCEPT !.weeklyLimit = limit], val |-> "ok"]

\* Mutant: null is refused too, so a limit once set cannot be removed
SetWeeklyLimit_NullRefused(s, limit) ==
  IF limit = NULL \/ IsNaN(limit) \/ JsLessEq(limit, 0)
  THEN [s |-> s, val |-> "ValidationError"]
  ELSE [s |-> [s EXCEPT !.weeklyLimit = limit], val |-> "ok"]

\* val: "ok" or the error thrown
SetWeeklyLimit(s, limit) ==
  IF limit # NULL /\ (IsNaN(limit) \/ JsLessEq(limit, 0))
  THEN [s |-> s, val |-> "ValidationError"]
  ELSE [s |-> [s EXCEPT !.weeklyLimit = limit], val |-> "ok"]

\* Mutant: a total equal to the limit counts as exceeded
IsWeeklyLimitExceeded_AtLimit(s) ==
  LET limit == GetWeeklyLimit(s)
  IN IF limit = NULL THEN [s |-> s, val |-> FALSE]
     ELSE [GetCurrentWeekTotal(s) EXCEPT !.val = @ >= limit]

IsWeeklyLimitExceeded(s) ==
  LET limit == GetWeeklyLimit(s)
  IN IF limit = NULL THEN [s |-> s, val |-> FALSE]
     ELSE [GetCurrentWeekTotal(s) EXCEPT !.val = @ > limit]

\* val: NULL without a limit, else the percentage min(total / limit * 100,
\* 100) as the exact fraction num / den
GetWeeklyLimitUsage(s) ==
  LET limit == GetWeeklyLimit(s)
  IN IF limit = NULL THEN [s |-> s, val |-> NULL]
     ELSE [GetCurrentWeekTotal(s) EXCEPT !.val =
             [num |-> IF @ * 100 < 100 * limit THEN @ * 100 ELSE 100 * limit,
              den |-> limit]]

(***************************************************************************)
(* FinanceService.getWeeksHistory                                          *)
(* An entry keeps weekStart NULL where the code puts new Date(0); period   *)
(* is the pair of dates the label is formatted from, or NULL.              *)
(***************************************************************************)
\* new Set(): the week ids of the closed set, then of the entries, each once,
\* in insertion order
AllWeekIds(s) ==
  LET closed == GetClosedWeeks(s)
      txs == GetAllTransactions(s)
      raw == closed \o [i \in 1..Len(txs) |-> txs[i].weekId]
      D[i \in 0..Len(raw)] ==
        IF i = 0 THEN <<>>
        ELSE CHOOSE r \in {IF SeqContains(d, raw[i]) THEN d ELSE Append(d, raw[i]) :
                             d \in {D[i - 1]}} : TRUE
  IN D[Len(raw)]

\* The map callback (lines 780-807) on the entries r of the week
HistoryEntry(r, weekId) ==
  LET txs == r.val
      weekStart == GetWeekStartDateById(r.s, weekId)
      weekStartFallback == GetWeekStart(txs[1].date)
  IN [weekId |-> weekId,
      period |-> IF weekStart # NULL
                 THEN <<weekStart, GetWeekEnd(weekStart)>>
                 ELSE IF Len(txs) > 0
                 THEN <<weekStartFallback, GetWeekEnd(weekStartFallback)>>
                 ELSE NULL,
      total |-> CalculateTotal(txs),
      transactionCount |-> Len(txs),
      isClosed |-> IsWeekClosed(r.s, weekId),
      weekStart |-> weekStart]

\* sort((a, b) => b.weekStart - a.weekStart), a stable sort: w goes after
\* the entries that start on its date or later
InsertByWeekStart(sorted, w) ==
  LET k == Cardinality({i \in 1..Len(sorted) : sorted[i].weekStart >= w.weekStart})
  IN SubSeq(sorted, 1, k) \o <<w>> \o SubSeq(sorted, k + 1, Len(sorted))

RECURSIVE SortByWeekStart(_)
SortByWeekStart(ws) ==
  IF ws = <<>> THEN <<>>
  ELSE InsertByWeekStart(SortByWeekStart(SubSeq(ws, 1, Len(ws) - 1)), ws[Len(ws)])

\* slice(0, limit)
Slice(ws, limit) == SubSeq(ws, 1, IF limit < Len(ws) THEN limit ELSE Len(ws))

GetWeeksHistory(s, limit) ==
  LET ids == AllWeekIds(s)
      M[i \in 0..Len(ids)] ==
        IF i = 0 THEN [s |-> s, val |-> <<>>]
        ELSE CHOOSE e \in
               {[s |-> r.s, val |-> Append(p.val, HistoryEntry(r, ids[i]))] :
                  <<p, r>> \in {<<q, GetTransactionsByWeek(q.s, ids[i])>> :
                                  q \in {M[i - 1]}}} : TRUE
      hasDate(w) == w.weekStart # NULL
  IN [M[Len(ids)] EXCEPT
        !.val = Slice(SortByWeekStart(SelectSeq(@, hasDate)), limit)]

(***************************************************************************)
(* FinanceService.closeWeek / checkAndAutoCloseWeek                        *)
(* val: "true", "false" or the error thrown; target: the week id closed    *)
(* (NoId when none was).  A throw keeps the writes made before it.         *)
(***************************************************************************)
\* The part of closeWeek after the closed set is saved (lines 601-671).
CloseWeekAdvance(s, target, nextCloseDate, isManual) ==
  LET closeDate == Today
      dayOfWeek == GetAutoCloseConfig(s).dayOfWeek
      done(st, v) == [s |-> st, val |-> v, target |-> target]
  IN
  IF isManual
  THEN
    LET currentNextCloseDate == GetNextCloseDate(s)
        newNextDay == GetNextDayOfWeekAfter(now, dayOfWeek)
        newWeekStartDate == Midnight(closeDate)
        g == GenerateWeekId(s)
        newWeekId == g.val
        s1 == [g.s EXCEPT !.mapping =
                 MappingSet(@, newWeekId, ToISODateKey(newWeekStartDate))]
        keepNext == /\ currentNextCloseDate # NULL
                    /\ closeDate < Midnight(currentNextCloseDate)
        nc == IF keepNext THEN [s |-> s1, val |-> "ok"]
              ELSE SetNextCloseDate(s1, newNextDay)
    IN
    IF nc.val # "ok" THEN done(nc.s, nc.val)
    ELSE
    LET s2 == SetCurrentWeekStart(nc.s, newWeekStartDate, newWeekId)
        fin == GetCurrentWeekId(s2)
    IN
    IF IsWeekClosed(fin.s, fin.val)
    THEN LET adjustedDate == AddDays(newWeekStartDate, 1)
             g2 == GenerateWeekId(fin.s)
         IN done(SetCurrentWeekStart(g2.s, adjustedDate, g2.val), "true")
    ELSE done(fin.s, "true")
  ELSE
    LET nc == IF nextCloseDate # NULL
              THEN SetNextCloseDate(s, nextCloseDate)
              ELSE SetNextCloseDate(s, GetNextDayOfWeekAfter(now, dayOfWeek))
    IN IF nc.val # "ok" THEN done(nc.s, nc.val) ELSE done(nc.s, "true")

\* Mutant: without a weekId the close targets the calendar week of today
CloseWeekTarget_CalendarWeek(s, weekId) ==
  IF weekId = NoId THEN GetOrCreateWeekId(s, GetWeekStart(now))
  ELSE [s |-> s, val |-> weekId]

\* The week closeWeek targets (lines 560-573): weekId || getCurrentWeekId()
CloseWeekTarget(s, weekId) ==
  IF weekId = NoId THEN GetCurrentWeekId(s)
  ELSE [s |-> s, val |-> weekId]

\* StorageService.set(key, value): the write takes effect unless
\* localStorage throws (the call then returns false and the key keeps its
\* former value); saved tells which of the two happens
StorageSet(saved, former, value) == IF saved THEN value ELSE former

\* Mutant: the week is closed again without looking at the closed set
CloseWeek_NoClosedCheck(s, weekId, nextCloseDate, isManual, saved) ==
  LET cur == CloseWeekTarget(s, weekId)
      s1 == [cur.s EXCEPT !.closedWeeks =
               StorageSet(saved, @, Append(@, cur.val))]
  IN CloseWeekAdvance(s1, cur.val, nextCloseDate, isManual)

\* Mutant: the closed set is not read back after the write
CloseWeek_NoVerify(s, weekId, nextCloseDate, isManual, saved) ==
  LET cur == CloseWeekTarget(s, weekId)
      s1 == [cur.s EXCEPT !.closedWeeks =
               StorageSet(saved, @, Append(@, cur.val))]
  IN IF IsWeekClosed(cur.s, cur.val)
     THEN [s |-> cur.s, target |-> NoId,
           val |-> IF isManual THEN "AlreadyClosedError" ELSE "false"]
     ELSE CloseWeekAdvance(s1, cur.val, nextCloseDate, isManual)

\* saved: whether the write of the closed set takes effect
CloseWeek(s, weekId, nextCloseDate, isManual, saved) ==
  LET none(st, v) == [s |-> st, val |-> v, target |-> NoId]
      cur == CloseWeekTarget(s, weekId)
      targetWeekId == cur.val
      s0 == cur.s
  IN
  IF IsWeekClosed(s0, targetWeekId)
  THEN IF isManual /\ weekId = NoId
       THEN none(s0, "AlreadyClosedError")
       ELSE none(s0, "false")
  ELSE
  LET closedList == GetClosedWeeks(s0)
      weekIdToClose == targetWeekId
  IN
  IF SeqContains(closedList, weekIdToClose)
  THEN IF isManual THEN none(s0, "AlreadyClosedError") ELSE none(s0, "false")
  ELSE
  LET s1 == [s0 EXCEPT !.closedWeeks =
                 StorageSet(saved, closedList, Append(closedList, weekIdToClose))]
      savedWeeks == GetClosedWeeks(s1)
  IN
  IF ~SeqContains(savedWeeks, weekIdToClose)
  THEN none(s1, "PersistenceError")
  ELSE CloseWeekAdvance(s1, weekIdToClose, nextCloseDate, isManual)

SetAutoCloseConfig(s, cfg) == [s EXCEPT !.config = cfg]

\* Mutant: the weekday of the schedule is not looked at
CheckAndAutoCloseWeek_AnyDay(s, saved) ==
  LET cfg == GetAutoCloseConfig(s)
      cur == GetCurrentWeekId(s)
      g == GenerateWeekId(cur.s)
      closed == CloseWeek(g.s, cur.val,
                          GetNextDayOfWeekAfter(now, cfg.dayOfWeek), FALSE, saved)
  IN IF ~cfg.enabled \/ now % 24 < cfg.hour
     THEN [s |-> s, val |-> "false", target |-> NoId]
     ELSE IF IsWeekClosed(cur.s, cur.val)
     THEN [s |-> cur.s, val |-> "false", target |-> NoId]
     ELSE IF closed.val = "true"
     THEN [s |-> SetCurrentWeekStart(closed.s, Today, g.val),
           val |-> "true", target |-> closed.target]
     ELSE [closed EXCEPT !.s.nextId = cur.s.nextId]

\* Mutant: the enabled flag of the schedule is not looked at
CheckAndAutoCloseWeek_IgnoresEnabled(s, saved) ==
  LET cfg == GetAutoCloseConfig(s)
      cur == GetCurrentWeekId(s)
      g == GenerateWeekId(cur.s)
      closed == CloseWeek(g.s, cur.val,
                          GetNextDayOfWeekAfter(now, cfg.dayOfWeek), FALSE, saved)
  IN IF ~(GetDay(now) = cfg.dayOfWeek /\ now % 24 >= cfg.hour)
     THEN [s |-> s, val |-> "false", target |-> NoId]
     ELSE IF IsWeekClosed(cur.s, cur.val)
     THEN [s |-> cur.s, val |-> "false", target |-> NoId]
     ELSE IF closed.val = "true"
     THEN [s |-> SetCurrentWeekStart(closed.s, Today, g.val),
           val |-> "true", target |-> closed.target]
     ELSE [closed EXCEPT !.s.nextId = cur.s.nextId]

CheckAndAutoCloseWeek(s, saved) ==
  LET cfg == GetAutoCloseConfig(s)
      none(st, v) == [s |-> st, val |-> v, target |-> NoId]
      currentDay == GetDay(now)
      currentHour == now % 24
  IN
  IF ~cfg.enabled THEN none(s, "false")
  ELSE IF ~(currentDay = cfg.dayOfWeek /\ currentHour >= cfg.hour)
  THEN none(s, "false")
  ELSE
  LET cur == GetCurrentWeekId(s)
      currentWeekId == cur.val
  IN
  IF IsWeekClosed(cur.s, currentWeekId) THEN none(cur.s, "false")
  ELSE
  LET closeDate == Today
      nextDay == GetNextDayOfWeekAfter(now, cfg.dayOfWeek)
      g == GenerateWeekId(cur.s)
      newWeekId == g.val
      closed == CloseWeek(g.s, currentWeekId, nextDay, FALSE, saved)
  IN
  IF closed.val = "true"
  THEN [s |-> SetCurrentWeekStart(closed.s, closeDate, newWeekId),
        val |-> "true", target |-> closed.target]
  \* newWeekId is dropped: an id that was never stored is never seen again,
  \* so the counter of generated ids is left where it was
  ELSE [closed EXCEPT !.s.nextId = cur.s.nextId]

(***************************************************************************)
(* AuthService and Router: the session, the page shown in #app and the     *)
(* page loads in flight.  navigate tests the session, then awaits loadPage *)
(* and renders when the load completes; other events run in between.       *)
(***************************************************************************)
Pages == {"login", "home", "dashboard", "admin"}

ProtectedPages == {"home", "dashboard", "admin"}

\* The router of a signed-in user on the home page, no load in flight
SignedIn == [session |-> TRUE, rendered |-> "home", sidebar |-> TRUE,
             loads |-> {}, cache |-> {"home"}]

IsAuthenticated(r) == r.session

\* The rendering of navigate (lines 89-107): the page replaces the content of
\* #app, inside the sidebar layout when it is not login and a session exists.
\* ok: the load succeeded (loadPage returns an error text otherwise)
RenderPage(r, pagePath, ok) ==
  [r EXCEPT !.rendered = IF ok THEN pagePath ELSE "error",
            !.sidebar = (pagePath # "login" /\ IsAuthenticated(r))]

\* navigate up to its await: the page asked for, or login when the page
\* requires a session and there is none; a cached page is rendered before
\* any other event runs, another one is requested.
\* val: "rendered" when the page was rendered at once
Navigate(r, pagePath, requireAuth) ==
  LET target == IF requireAuth /\ ~IsAuthenticated(r) THEN "login" ELSE pagePath
  IN IF target \in r.cache
     THEN [r |-> RenderPage(r, target, TRUE), val |-> "rendered"]
     ELSE [r |-> [r EXCEPT !.loads = @ \cup {target}], val |-> "none"]

\* AuthService.login: the session is stored when the credentials are valid
Login(r, valid) == IF valid THEN [r EXCEPT !.session = TRUE] ELSE r

\* AuthService.logout
Logout(r) == [r EXCEPT !.session = FALSE]

(***************************************************************************)
(* The state machine: one action per FinanceService operation, plus the    *)
(* passage of time.                                                        *)
(***************************************************************************)
DefaultConfig == [enabled |-> TRUE, dayOfWeek |-> 0, hour |-> 12]

Configs == [enabled : BOOLEAN, dayOfWeek : DaysOfWeek, hour : ConfigHours]

Init ==
  /\ now \in InitialInstants
  /\ tz \in TzOffsets
  /\ router = SignedIn
  /\ transactions = <<>>
  /\ closedWeeks = <<>>
  /\ mapping = <<>>
  /\ cwStart = NULL
  /\ cwId = NoId
  /\ nextClose = NULL
  /\ config = DefaultConfig
  /\ weeklyLimit = NULL
  /\ nextId = 1
  /\ nextTxId = 1
  /\ lastOutcome = "none"

Errors == {"ValidationError", "ClosedWeekError", "AlreadyClosedError",
           "PersistenceError", "WrongDayError", "NotFutureError",
           "RangeError"}

\* What lastOutcome keeps of a returned value: the error, if it is one
Outcome(val) == IF val \in Errors THEN val ELSE "none"

LastClose ==
  IF lastOutcome \in {"manual", "manualAgain"} THEN "manual"
  ELSE IF lastOutcome = "auto" THEN "auto"
  ELSE "none"

\* The wall clock is on the configured weekday, at or after the configured
\* hour (the test of checkAndAutoCloseWeek, line 730)
ScheduleDue == GetDay(now) = config.dayOfWeek /\ now % 24 >= config.hour

\* The store after an operation becomes the persisted state.
Persist(s) ==
  /\ s.nextId <= MaxWeekIds + 1
  /\ s.nextTxId <= MaxTx + 1
  /\ transactions' = s.transactions
  /\ closedWeeks' = s.closedWeeks
  /\ mapping' = s.mapping
  /\ cwStart' = s.cwStart
  /\ cwId' = s.cwId
  /\ nextClose' = s.nextClose
  /\ config' = s.config
  /\ weeklyLimit' = s.weeklyLimit
  /\ nextId' = s.nextId
  /\ nextTxId' = s.nextTxId

AdvanceClock ==
  /\ \E d \in DayOf(now)..MaxDay : \E h \in ClockHours :
        /\ d * 24 + h > now
        /\ now' = d * 24 + h
  /\ lastOutcome' = "none"
  /\ UNCHANGED <<tz, router, transactions, closedWeeks, mapping, cwStart, cwId,
                 nextClose, config, weeklyLimit, nextId, nextTxId>>

CreateTransactionStep(description, amount, dateString) ==
  /\ Persist(CreateTransaction(Store, description, amount, dateString).s)
  /\ lastOutcome' =
       Outcome(CreateTransaction(Store, description, amount, dateString).val)
  /\ UNCHANGED <<now, tz, router>>

CreateTransactionOp == \E in \in TxInputs : CreateTransactionStep(in[1], in[2], in[3])

RemoveTransactionStep(transactionId) ==
  /\ Persist(RemoveTransaction(Store, transactionId).s)
  /\ lastOutcome' = "none"
  /\ UNCHANGED <<now, tz, router>>

RemoveTransactionOp ==
  \E transactionId \in 1..(nextTxId - 1) : RemoveTransactionStep(transactionId)

\* closeWeek(null, null, true): the close button of the dashboard
ManualCloseWeekStep(saved) ==
  LET r == CloseWeek(Store, NoId, NULL, TRUE, saved)
  IN /\ Persist(r.s)
     /\ lastOutcome' = (IF r.val # "true" THEN Outcome(r.val)
                        ELSE IF LastClose = "manual" THEN "manualAgain"
                        ELSE "manual")
        /\ UNCHANGED <<now, tz, router>>

ManualCloseWeekOp == \E saved \in BOOLEAN : ManualCloseWeekStep(saved)

\* closeWeek(): the close button of the first dashboard, all arguments at
\* their defaults (weekId = null, nextCloseDate = null, isManual = false)
CloseWeekDefaultStep(saved) ==
  LET r == CloseWeek(Store, NoId, NULL, FALSE, saved)
  IN /\ Persist(r.s)
     /\ lastOutcome' = (IF r.val = "true" THEN "direct"
                        ELSE IF r.val = "false" THEN "directFalse"
                        ELSE Outcome(r.val))
        /\ UNCHANGED <<now, tz, router>>

CloseWeekDefaultOp == \E saved \in BOOLEAN : CloseWeekDefaultStep(saved)

\* checkAndAutoCloseWeek(): page load and the 60 second timer
CheckAndAutoCloseWeekStep(saved) ==
  LET r == CheckAndAutoCloseWeek(Store, saved)
  IN /\ Persist(r.s)
     /\ lastOutcome' = (IF r.val = "true" THEN "auto"
                        ELSE IF ~config.enabled /\ ScheduleDue THEN "autoOff"
                        ELSE Outcome(r.val))
        /\ UNCHANGED <<now, tz, router>>

CheckAndAutoCloseWeekOp == \E saved \in BOOLEAN : CheckAndAutoCloseWeekStep(saved)

SetAutoCloseConfigStep(cfg) ==
  /\ Persist(SetAutoCloseConfig(Store, cfg))
  /\ lastOutcome' = "none"
  /\ UNCHANGED <<now, tz, router>>

SetAutoCloseConfigOp == \E cfg \in Configs : SetAutoCloseConfigStep(cfg)

SetWeeklyLimitStep(limit) ==
  /\ Persist(SetWeeklyLimit(Store, limit).s)
  /\ lastOutcome' = Outcome(SetWeeklyLimit(Store, limit).val)
  /\ UNCHANGED <<now, tz, router>>

SetWeeklyLimitOp == \E limit \in WeeklyLimits : SetWeeklyLimitStep(limit)

\* The store after a query of the dashboard on the current week
QueryCurrentWeek(s, query) ==
  CASE query = "transactions" -> GetCurrentWeekTransactions(s)
    [] query = "total" -> GetCurrentWeekTotal(s)
    [] query = "exceeded" -> IsWeeklyLimitExceeded(s)
    [] query = "usage" -> GetWeeklyLimitUsage(s)

QueryCurrentWeekStep(query) ==
  /\ \E r \in {QueryCurrentWeek(Store, query)} : Persist(r.s)
  /\ lastOutcome' = "none"
  /\ UNCHANGED <<now, tz, router>>

QueryCurrentWeekOp == \E query \in Queries : QueryCurrentWeekStep(query)

Next ==
  \/ AdvanceClock
  \/ CreateTransactionOp
  \/ RemoveTransactionOp
  \/ ManualCloseWeekOp
  \/ CheckAndAutoCloseWeekOp
  \/ SetAutoCloseConfigOp
  \/ SetWeeklyLimitOp
  \/ QueryCurrentWeekOp

Spec == Init /\ [][Next]_vars

\* The week lifecycle when closeWeek is also called with its default
\* arguments, as the close button of the first dashboard calls it
NextDirect ==
  \/ AdvanceClock
  \/ CreateTransactionOp
  \/ ManualCloseWeekOp
  \/ CloseWeekDefaultOp
  \/ CheckAndAutoCloseWeekOp
  \/ SetAutoCloseConfigOp

SpecDirect == Init /\ [][NextDirect]_vars

\* The program first opened on the Saturday before, so that the calendar
\* week changes while the clock advances
InitSaturday ==
  /\ now = 13 * 24 + 9
  /\ tz \in TzOffsets
  /\ router = SignedIn
  /\ transactions = <<>>
  /\ closedWeeks = <<>>
  /\ mapping = <<>>
  /\ cwStart = NULL
  /\ cwId = NoId
  /\ nextClose = NULL
  /\ config = DefaultConfig
  /\ weeklyLimit = NULL
  /\ nextId = 1
  /\ nextTxId = 1
  /\ lastOutcome = "none"

NextRollover ==
  \/ AdvanceClock
  \/ CreateTransactionOp
  \/ RemoveTransactionOp
  \/ ManualCloseWeekOp
  \/ CheckAndAutoCloseWeekOp
  \/ QueryCurrentWeekOp

SpecRollover == InitSaturday /\ [][NextRollover]_vars

\* The week id the earlier version of the service gave to the week of a
\* date (the timestamp of its Sunday), which has no mapping entry
LegacyWeekId(date) == 100 + DayOf(GetWeekStart(date))

\* An entry the earlier version stored for the calendar day
LegacyTransaction(day) ==
  [id |-> 100 + day, description |-> <<"a">>, amount |-> 5,
   date |-> ParseDate(day), weekId |-> LegacyWeekId(ParseDate(day)),
   rule |-> 0]

\* Logs and closed sets left in localStorage: none, or those of the earlier
\* version
LegacyStores ==
  {[transactions |-> <<>>, closedWeeks |-> <<>>],
   [transactions |-> <<LegacyTransaction(12)>>, closedWeeks |-> <<>>],
   [transactions |-> <<LegacyTransaction(12)>>,
    closedWeeks |-> <<LegacyWeekId(ParseDate(12))>>],
   [transactions |-> <<LegacyTransaction(5), LegacyTransaction(12)>>,
    closedWeeks |-> <<LegacyWeekId(ParseDate(5))>>],
   [transactions |-> <<>>, closedWeeks |-> <<LegacyWeekId(ParseDate(5))>>]}

InitHistory ==
  /\ now \in InitialInstants
  /\ tz \in TzOffsets
  /\ router = SignedIn
  /\ \E old \in LegacyStores :
       /\ transactions = old.transactions
       /\ closedWeeks = old.closedWeeks
  /\ mapping = <<>>
  /\ cwStart = NULL
  /\ cwId = NoId
  /\ nextClose = NULL
  /\ config = DefaultConfig
  /\ weeklyLimit = NULL
  /\ nextId = 1
  /\ nextTxId = 1
  /\ lastOutcome = "none"

GetWeeksHistoryStep(limit) ==
  /\ \E r \in {GetWeeksHistory(Store, limit)} : Persist(r.s)
  /\ lastOutcome' = "none"
  /\ UNCHANGED <<now, tz, router>>

GetWeeksHistoryOp == \E limit \in HistoryLimits : GetWeeksHistoryStep(limit)

\* isCurrentWeekClosed()
IsCurrentWeekClosed(s) ==
  [GetCurrentWeekId(s) EXCEPT !.val = IsWeekClosed(s, @)]

IsCurrentWeekClosedStep ==
  /\ \E r \in {IsCurrentWeekClosed(Store)} : Persist(r.s)
  /\ lastOutcome' = "none"
  /\ UNCHANGED <<now, tz, router>>

\* Every query of the pages, between the operations that write the ledger
NextQueries ==
  \/ AdvanceClock
  \/ CreateTransactionOp
  \/ ManualCloseWeekOp
  \/ CheckAndAutoCloseWeekOp
  \/ IsCurrentWeekClosedStep
  \/ QueryCurrentWeekOp
  \/ GetWeeksHistoryOp

SpecQueries == InitHistory /\ [][NextQueries]_vars

\* The history page, on a store that may hold the data of the earlier version
NextHistory ==
  \/ AdvanceClock
  \/ CreateTransactionOp
  \/ ManualCloseWeekOp
  \/ CheckAndAutoCloseWeekOp
  \/ GetWeeksHistoryOp

SpecHistory == InitHistory /\ [][NextHistory]_vars

\* The weekly limit: setWeeklyLimit with any value, entries of today with
\* several amounts, and the queries of the dashboard
CreateAmountOp ==
  \E amount \in LimitAmounts : CreateTransactionStep(<<"a">>, amount, DayOf(now))

SetWeeklyLimitInputOp == \E limit \in LimitInputs : SetWeeklyLimitStep(limit)

NextLimit ==
  \/ CreateAmountOp
  \/ SetWeeklyLimitInputOp
  \/ QueryCurrentWeekOp

SpecLimit == Init /\ [][NextLimit]_vars

\* The entry form with any input: descriptions, amounts and dates that
\* createTransaction has to refuse, next to those it takes
CreateFormOp ==
  \E description \in FormDescriptions : \E amount \in FormAmounts :
     \E dateString \in FormDates :
        CreateTransactionStep(description, amount, dateString)

NextForm ==
  \/ CreateFormOp
  \/ RemoveTransactionOp
  \/ ManualCloseWeekOp

SpecForm == Init /\ [][NextForm]_vars

\* getNextDayOfWeekAfter alone: the date is the clock, the weekday is the one
\* of the schedule, and the result is kept as the next-close date
InitDates ==
  /\ now \in DateInstants
  /\ tz \in TzOffsets
  /\ router = SignedIn
  /\ transactions = <<>>
  /\ closedWeeks = <<>>
  /\ mapping = <<>>
  /\ cwStart = NULL
  /\ cwId = NoId
  /\ nextClose = NULL
  /\ config \in [enabled : {TRUE}, dayOfWeek : AllDaysOfWeek, hour : ConfigHours]
  /\ weeklyLimit = NULL
  /\ nextId = 1
  /\ nextTxId = 1
  /\ lastOutcome = "none"

GetNextDayOfWeekAfterStep ==
  /\ nextClose' = GetNextDayOfWeekAfter(now, config.dayOfWeek)
  /\ lastOutcome' = "none"
  /\ UNCHANGED <<now, tz, router, transactions, closedWeeks, mapping, cwStart, cwId,
                 config, weeklyLimit, nextId, nextTxId>>

NextDates == GetNextDayOfWeekAfterStep

SpecDates == InitDates /\ [][NextDates]_vars

\* getWeekStart and getWeekEnd alone: the date is the clock, the week start
\* is kept as the current-week start and the week end as the next-close date
GetWeekStartStep ==
  /\ cwStart' = GetWeekStart(now)
  /\ lastOutcome' = "none"
  /\ UNCHANGED <<now, tz, router, transactions, closedWeeks, mapping, cwId, nextClose,
                 config, weeklyLimit, nextId, nextTxId>>

GetWeekEndStep ==
  /\ nextClose' = GetWeekEnd(now)
  /\ lastOutcome' = "none"
  /\ UNCHANGED <<now, tz, router, transactions, closedWeeks, mapping, cwStart, cwId,
                 config, weeklyLimit, nextId, nextTxId>>

NextWeek ==
  \/ GetWeekStartStep
  \/ GetWeekEndStep

SpecWeek == InitDates /\ [][NextWeek]_vars

\* isDateInCurrentWeekPeriod alone: the date is the clock, the period is the
\* stored current-week start and the next-close date standing for its end
InitPeriod ==
  /\ now \in PeriodDates
  /\ tz \in TzOffsets
  /\ router = SignedIn
  /\ transactions = <<>>
  /\ closedWeeks = <<>>
  /\ mapping = <<>>
  /\ cwStart \in PeriodStarts
  /\ cwId = NoId
  /\ nextClose \in PeriodEnds
  /\ config = DefaultConfig
  /\ weeklyLimit = NULL
  /\ nextId = 1
  /\ nextTxId = 1
  /\ lastOutcome = "none"

IsDateInCurrentWeekPeriodStep ==
  /\ lastOutcome' = (IF IsDateInCurrentWeekPeriod(now, cwStart, nextClose)
                     THEN "inside" ELSE "outside")
  /\ UNCHANGED <<now, tz, router, transactions, closedWeeks, mapping, cwStart, cwId,
                 nextClose, config, weeklyLimit, nextId, nextTxId>>

NextPeriod == IsDateInCurrentWeekPeriodStep

SpecPeriod == InitPeriod /\ [][NextPeriod]_vars

\* The router alone, from the start of the application (init has called
\* navigateToDashboard or navigateToLogin and the page is being loaded)
InitRouter ==
  /\ now \in InitialInstants
  /\ tz = 0 - 3
  /\ transactions = <<>>
  /\ closedWeeks = <<>>
  /\ mapping = <<>>
  /\ cwStart = NULL
  /\ cwId = NoId
  /\ nextClose = NULL
  /\ config = DefaultConfig
  /\ weeklyLimit = NULL
  /\ nextId = 1
  /\ nextTxId = 1
  /\ \E session \in BOOLEAN :
       router = [session |-> session, rendered |-> "none", sidebar |-> FALSE,
                 loads |-> {IF session THEN "dashboard" ELSE "login"},
                 cache |-> {}]
  /\ lastOutcome = "none"

RouterStep(r) ==
  /\ router' = r.r
  /\ lastOutcome' = r.val
  /\ UNCHANGED <<now, tz, transactions, closedWeeks, mapping, cwStart, cwId,
                 nextClose, config, weeklyLimit, nextId, nextTxId>>

\* A click on a link of the sidebar
SidebarNavigate ==
  /\ router.sidebar
  /\ \E page \in ProtectedPages : RouterStep(Navigate(router, page, TRUE))

\* The login form is submitted
LoginSubmit ==
  /\ router.rendered = "login"
  /\ \E valid \in BOOLEAN :
       IF valid
       THEN RouterStep(Navigate(Login(router, valid), "home", TRUE))
       ELSE RouterStep([r |-> Login(router, valid), val |-> "none"])

\* A click on the logout button of the sidebar
LogoutClick ==
  /\ router.sidebar
  /\ RouterStep(Navigate(Logout(router), "login", FALSE))

\* A page load ends and navigate resumes after its await
LoadCompletes ==
  \E page \in router.loads : \E ok \in BOOLEAN :
     RouterStep([r |-> RenderPage([router EXCEPT
                                     !.loads = @ \ {page},
                                     !.cache = IF ok THEN @ \cup {page} ELSE @],
                                  page, ok),
                 val |-> "rendered"])

NextRouter ==
  \/ SidebarNavigate
  \/ LoginSubmit
  \/ LogoutClick
  \/ LoadCompletes

SpecRouter == InitRouter /\ [][NextRouter]_vars

\* getOrCreateWeekId alone, called with the local midnight of the day of the
\* clock, which moves from day to day
GetOrCreateWeekIdStep ==
  /\ \E r \in {GetOrCreateWeekId(Store, Today)} : Persist(r.s)
  /\ lastOutcome' = "none"
  /\ UNCHANGED <<now, tz, router>>

NextMapping ==
  \/ AdvanceClock
  \/ GetOrCreateWeekIdStep

SpecMapping == InitDates /\ [][NextMapping]_vars

\* The same program in a browser whose timezone is at or west of UTC
SpecWest == Init /\ tz <= 0 /\ [][Next]_vars

TypeOK ==
  /\ now \in Int
  /\ tz \in TzOffsets
  /\ cwId \in 0..MaxWeekIds
  /\ nextId \in 1..(MaxWeekIds + 1)
  /\ \A i \in 1..Len(closedWeeks) : closedWeeks[i] \in 1..MaxWeekIds

(***************************************************************************)
(* Properties                                                              *)
(***************************************************************************)
\* What getCurrentWeekId() resolves to in the current state
CurrentWeekId == GetCurrentWeekId(Store).val

CurrentWeekClosed == SeqContains(closedWeeks, CurrentWeekId)

LastClosedWeek == closedWeeks[Len(closedWeeks)]

\* A form input that meets the preconditions of createTransaction
ValidInput(in) == Trim(in[1]) # <<>> /\ in[2] > 0 /\ in[3] # NULL

\* The step appends one transaction to the log
Created == /\ Len(transactions') = Len(transactions) + 1
           /\ SubSeq(transactions', 1, Len(transactions)) = transactions

NewTx == transactions'[Len(transactions')]

\* Only createTransaction consumes a transaction id or throws this error
IsCreateStep ==
  \/ nextTxId' = nextTxId + 1
  \/ lastOutcome' = "ClosedWeekError"

\* C1: between operations, the week the current-week pointer resolves to is
\* never in the closed set.
C1_CurrentWeekNeverClosed == ~CurrentWeekClosed

\* C2: a checkAndAutoCloseWeek() call that directly follows one that closed a
\* week, in the same matching weekday and hour, adds nothing to the closed
\* set and returns false.
C2_SecondTickIsNoOp ==
  [][(/\ lastOutcome = "auto"
      /\ GetDay(now) = config.dayOfWeek
      /\ now % 24 = config.hour
      /\ CheckAndAutoCloseWeekStep(TRUE))
     => (/\ closedWeeks' = closedWeeks
         /\ CheckAndAutoCloseWeek(Store, TRUE).val = "false")]_vars

C4_CreateAfterCloseSucceeds ==
  [][IsCreateStep => \A in \in TxInputs :
       (/\ LastClose # "none"
        /\ ValidInput(in)
        /\ ParseDate(in[3]) = Today
        /\ CreateTransactionStep(in[1], in[2], in[3]))
       => (/\ Created
           /\ NewTx.weekId = CurrentWeekId
           /\ NewTx.weekId # LastClosedWeek)]_vars

\* The entry date of a form input, and where it falls
EntryDate(in) == ParseDate(in[3])

InCurrentPeriod(date) ==
  IsDateInCurrentWeekPeriod(date, GetCurrentWeekStartDate(Store),
                            GetCurrentWeekEndDate(Store))

\* The week ids the mapping holds for the Sunday-aligned week of a date, in
\* insertion order
StandardKey(date) == ToISODateKey(GetWeekStart(date))

IdsOfKey(m, key) ==
  LET hit(e) == e.date = key IN SelectSeq(m, hit)

\* The week id the standard week of the date resolves to once the current
\* week id is resolved (NoId when the mapping has none yet)
StandardWeekId(date) ==
  LET ids == IdsOfKey(GetCurrentWeekId(Store).s.mapping, StandardKey(date))
  IN IF ids = <<>> THEN NoId ELSE ids[1].id

StandardWeekClosed(date) == SeqContains(closedWeeks, StandardWeekId(date))

\* C5: a valid createTransaction made while the current week is open, with a
\* date of today or later, is attributed to the current week.
C5_TodayOrFutureGoesToCurrentWeek ==
  [][IsCreateStep => \A in \in TxInputs :
       (/\ ValidInput(in)
        /\ ~CurrentWeekClosed
        /\ EntryDate(in) >= Today
        /\ CreateTransactionStep(in[1], in[2], in[3]))
       => (/\ Created
           /\ NewTx.weekId = CurrentWeekId
           /\ NewTx.weekId = CurrentWeekId')]_vars

\* An open current week holds an entry dated today or later whose own
\* standard week is closed.
C5_Witness ==
  /\ ~CurrentWeekClosed
  /\ \E i \in 1..Len(transactions) :
       /\ transactions[i].date >= Today
       /\ transactions[i].weekId = CurrentWeekId
       /\ StandardWeekClosed(transactions[i].date)

\* C6: while the current week is closed, createTransaction rejects every
\* input that passes validation with the closed-week error, whatever its
\* date, and stores nothing.
C6_ClosedCurrentWeekRejects ==
  [][IsCreateStep => \A in \in TxInputs :
       (/\ ValidInput(in)
        /\ CurrentWeekClosed
        /\ CreateTransactionStep(in[1], in[2], in[3]))
       => (/\ transactions' = transactions
           /\ lastOutcome' = "ClosedWeekError")]_vars

\* A createTransaction was just rejected because the current week is closed.
C6_Witness == CurrentWeekClosed /\ lastOutcome = "ClosedWeekError"

\* C7: createTransaction never stores a transaction under a closed weekId,
\* and a valid back-dated entry outside the current period whose standard
\* week is closed is stored under the current week.
C7_ClosedWeekProtection ==
  [][IsCreateStep => \A in \in TxInputs :
       CreateTransactionStep(in[1], in[2], in[3])
       => (/\ Created => ~SeqContains(closedWeeks', NewTx.weekId)
           /\ (/\ ValidInput(in)
               /\ ~CurrentWeekClosed
               /\ EntryDate(in) < Today
               /\ ~InCurrentPeriod(EntryDate(in))
               /\ StandardWeekClosed(EntryDate(in)))
              => (Created /\ NewTx.weekId = CurrentWeekId))]_vars

\* The log holds a back-dated entry that was redirected to the open current
\* week because its standard week is closed.
C7_Witness ==
  \E i \in 1..Len(transactions) :
    /\ transactions[i].rule = 4
    /\ transactions[i].date < Today
    /\ StandardWeekClosed(transactions[i].date)
    /\ transactions[i].weekId = CurrentWeekId

KeyCount(m, key) == Len(IdsOfKey(m, key))

\* Entries attributed to their standard week share the week id of that week
StandardEntriesShareWeekId ==
  \A i, j \in 1..Len(transactions) :
    (/\ transactions[i].rule = 5
     /\ transactions[j].rule = 5
     /\ GetWeekStart(transactions[i].date) = GetWeekStart(transactions[j].date))
    => transactions[i].weekId = transactions[j].weekId

\* C8: a valid entry dated before today, made while the current week is
\* open, goes to the current week when its date is inside the current
\* period; otherwise, when its standard week is not closed, to the first
\* week id mapped to that week's Sunday, which is created if missing and
\* reused if present, so that such entries of one calendar week share an id.
C8_BackDatedAttribution ==
  [][IsCreateStep => \A in \in TxInputs :
       (/\ ValidInput(in)
        /\ ~CurrentWeekClosed
        /\ EntryDate(in) < Today
        /\ CreateTransactionStep(in[1], in[2], in[3]))
       => LET date == EntryDate(in)
              key == StandardKey(date)
              before == GetCurrentWeekId(Store).s.mapping
          IN /\ Created
             /\ InCurrentPeriod(date) => NewTx.weekId = CurrentWeekId
             /\ (~InCurrentPeriod(date) /\ ~StandardWeekClosed(date))
                => (/\ NewTx.weekId = IdsOfKey(mapping', key)[1].id
                    /\ IF KeyCount(before, key) > 0
                       THEN /\ NewTx.weekId = StandardWeekId(date)
                            /\ KeyCount(mapping', key) = KeyCount(before, key)
                       ELSE /\ KeyCount(mapping', key) = 1
                            /\ ~MappingHasId(before, NewTx.weekId))
             /\ StandardEntriesShareWeekId']_vars

\* Two entries of one calendar week, both attributed to its standard week.
C8_Witness ==
  \E i, j \in 1..Len(transactions) :
    /\ i # j
    /\ transactions[i].rule = 5
    /\ transactions[j].rule = 5
    /\ GetWeekStart(transactions[i].date) = GetWeekStart(transactions[j].date)

\* The transactions stored under a week id
TransactionsOfWeek(txs, weekId) ==
  {txs[i] : i \in {k \in 1..Len(txs) : txs[k].weekId = weekId}}

\* C9: no step changes the set of transactions of a week that is closed.
C9_ClosedWeekImmutable ==
  [][\A i \in 1..Len(closedWeeks) :
       TransactionsOfWeek(transactions', closedWeeks[i]) =
       TransactionsOfWeek(transactions, closedWeeks[i])]_vars

WeekIdsInUse ==
  {mapping[i].id : i \in 1..Len(mapping)}
  \cup {closedWeeks[i] : i \in 1..Len(closedWeeks)}
  \cup {transactions[i].weekId : i \in 1..Len(transactions)}

\* C10: a close that returns true adds exactly the former current week to
\* the closed set, and leaves a current week that starts today under a week
\* id that nothing referred to before the close.
C10_CloseEstablishesFreshWeek ==
  [][(LastClose' # "none"
      /\ (ManualCloseWeekOp \/ CheckAndAutoCloseWeekOp))
     => (/\ closedWeeks' = Append(closedWeeks, CurrentWeekId)
         /\ GetCurrentWeekStartDate(Store)' = Today
         /\ CurrentWeekId' \notin WeekIdsInUse
         /\ CurrentWeekId' # CurrentWeekId)]_vars

\* The last step was a closeWeek that returned true
CloseOutcomes == {"manual", "manualAgain", "direct", "auto"}

\* C11: every closeWeek that returns true on the current week (the close
\* button, closeWeek() with its default arguments, the automatic close)
\* leaves a current week id different from the one it closed.
C11_CloseAdvancesPointer ==
  [][lastOutcome' \in CloseOutcomes => CurrentWeekId' # CurrentWeekId]_vars

\* The parts of the state C12 and C13 speak of are as before the step; the
\* pointer is what getCurrentWeekId() resolves to.
CloseLeftNoTrace ==
  /\ closedWeeks' = closedWeeks
  /\ CurrentWeekId' = CurrentWeekId
  /\ cwStart' = cwStart
  /\ nextClose' = nextClose

\* C12: closing a week that is already closed changes nothing: the manual
\* close of a closed current week throws the already-closed error, a
\* closeWeek with isManual = false on a closed week returns false, and the
\* closed set, the pointer and the next-close date stay as they were.
C12_ClosingClosedWeekChangesNothing ==
  [][/\ (CurrentWeekClosed /\ ManualCloseWeekOp)
          => (lastOutcome' = "AlreadyClosedError" /\ CloseLeftNoTrace)
     /\ (CurrentWeekClosed /\ CloseWeekDefaultOp)
          => (lastOutcome' = "directFalse" /\ CloseLeftNoTrace)
     /\ \A i \in 1..Len(closedWeeks) : \A isManual \in BOOLEAN :
          LET r == CloseWeek(Store, closedWeeks[i], NULL, isManual, TRUE)
          IN r.val = "false" /\ r.s = Store]_vars

\* A closeWeek() with isManual = false found the current week closed.
C12_Witness == lastOutcome = "directFalse" /\ CurrentWeekClosed

\* C13: when the write of the closed set does not take effect, closeWeek
\* throws instead of returning true, and the closed set, the pointer, the
\* mapping and the next-close date are not advanced.
C13_FailedWriteStopsTheClose ==
  [][/\ (~CurrentWeekClosed /\ ManualCloseWeekStep(FALSE))
          => lastOutcome' = "PersistenceError"
     /\ (~CurrentWeekClosed /\ config.enabled /\ ScheduleDue
           /\ CheckAndAutoCloseWeekStep(FALSE))
          => lastOutcome' = "PersistenceError"
     /\ lastOutcome' = "PersistenceError"
          => (/\ CloseLeftNoTrace
              /\ mapping' = GetCurrentWeekId(Store).s.mapping)]_vars

\* A close was stopped by the verification of the write.
C13_Witness == lastOutcome = "PersistenceError"

C15_DisabledScheduleIsNoOp ==
  [][(~config.enabled /\ CheckAndAutoCloseWeekOp)
       => (/\ \A saved \in BOOLEAN :
                CheckAndAutoCloseWeek(Store, saved).val = "false"
           /\ UNCHANGED <<transactions, closedWeeks, mapping, cwId, cwStart,
                          nextClose, config, weeklyLimit>>)]_vars

\* A checkAndAutoCloseWeek ran on the configured weekday, at or after the
\* configured hour, with the schedule disabled and the current week open.
C15_Witness == lastOutcome = "autoOff" /\ ~CurrentWeekClosed

\* C16: after a close that returned true, the next-close date is the next
\* occurrence of the configured weekday after now, unless the former
\* next-close date is still in the future and precedes that occurrence, in
\* which case it is kept.
C16_NextCloseAfterClose ==
  [][lastOutcome' \in CloseOutcomes =>
       LET occurrence == GetNextDayOfWeekAfter(now, config.dayOfWeek)
       IN IF /\ nextClose # NULL
             /\ Midnight(nextClose) > Today
             /\ nextClose < occurrence
          THEN nextClose' = nextClose
          ELSE nextClose' = occurrence]_vars

\* C17: a stored next-close date falls on the configured weekday.
C17_NextCloseOnConfiguredDay ==
  nextClose # NULL => GetDay(nextClose) = config.dayOfWeek

NoDuplicates(seq) ==
  \A i, j \in 1..Len(seq) : seq[i] = seq[j] => i = j

\* C18: the closed set only grows and never holds a week id twice: every
\* step keeps the closed weeks it found, in place, and the set is
\* duplicate-free in every reachable state.
C18_ClosedSetMonotonicNoDuplicates ==
  /\ []NoDuplicates(closedWeeks)
  /\ [][/\ Len(closedWeeks') >= Len(closedWeeks)
        /\ \A i \in 1..Len(closedWeeks) : closedWeeks'[i] = closedWeeks[i]]_vars

\* Two weeks are closed, the later one by a close of the current week that
\* was attempted again afterwards and refused.
C18_Witness ==
  /\ Len(closedWeeks) >= 2
  /\ lastOutcome \in {"AlreadyClosedError", "directFalse"}

\* C19: the week-id to start-date mapping is append-only: every step keeps
\* each entry it found, with its id and its date, and every entry it adds is
\* under a week id generated in that step, which no entry had before.
C19_MappingAppendOnly ==
  [][/\ Len(mapping') >= Len(mapping)
     /\ \A i \in 1..Len(mapping) : mapping'[i] = mapping[i]
     /\ \A i \in (Len(mapping) + 1)..Len(mapping') :
          /\ mapping'[i].id \in nextId..(nextId' - 1)
          /\ ~MappingHasId(mapping, mapping'[i].id)]_vars

\* A manual close added an entry to a mapping that already had one.
C19_Witness == Len(mapping) >= 2 /\ lastOutcome = "manual"

\* C20: whenever the current week is closed, every current-week query
\* reports an empty week: getCurrentWeekTransactions() is the empty list,
\* getCurrentWeekTotal() is 0, isWeeklyLimitExceeded() is false and, under
\* any weekly limit that is set, getWeeklyLimitUsage() is 0.
C20_ClosedCurrentWeekShowsNothing ==
  CurrentWeekClosed =>
    /\ GetCurrentWeekTransactions(Store).val = <<>>
    /\ GetCurrentWeekTotal(Store).val = 0
    /\ \A limit \in WeeklyLimits :
         LET s == [Store EXCEPT !.weeklyLimit = limit]
         IN /\ IsWeeklyLimitExceeded(s).val = FALSE
            /\ limit # NULL => GetWeeklyLimitUsage(s).val.num = 0

\* The current week is closed, holds a stored entry and a limit is set.
C20_Witness ==
  /\ CurrentWeekClosed
  /\ weeklyLimit # NULL
  /\ \E i \in 1..Len(transactions) : transactions[i].weekId = CurrentWeekId

\* C21: while the current week is open, getCurrentWeekTransactions() lists
\* exactly the stored entries whose weekId is the current week id and the
\* other entries dated within the current week's period whose own weekId
\* and whose standard calendar week are both open; no listed entry has a
\* closed weekId.
C21_OpenWeekListing ==
  ~CurrentWeekClosed =>
    LET listed == GetCurrentWeekTransactions(Store).val
        belongs(t) ==
          \/ t.weekId = CurrentWeekId
          \/ /\ InCurrentPeriod(t.date)
             /\ ~SeqContains(closedWeeks, t.weekId)
             /\ ~StandardWeekClosed(t.date)
    IN /\ listed = SelectSeq(transactions, belongs)
       /\ \A i \in 1..Len(listed) : ~SeqContains(closedWeeks, listed[i].weekId)

\* The open current week lists an entry of another week by its date and
\* leaves out another stored entry.
C21_Witness ==
  /\ ~CurrentWeekClosed
  /\ Len(GetCurrentWeekTransactions(Store).val) < Len(transactions)
  /\ \E i \in 1..Len(transactions) :
       /\ transactions[i].weekId # CurrentWeekId
       /\ \E j \in 1..Len(GetCurrentWeekTransactions(Store).val) :
            GetCurrentWeekTransactions(Store).val[j] = transactions[i]

\* The week ids getWeeksHistory has to consider
HistoryCandidates ==
  {closedWeeks[i] : i \in 1..Len(closedWeeks)}
    \cup {transactions[i].weekId : i \in 1..Len(transactions)}

\* The stored entries of a week id, in the order of the log
EntriesOfWeek(weekId) ==
  LET ofWeek(tx) == tx.weekId = weekId IN SelectSeq(transactions, ofWeek)

\* The start date of a week: its mapping entry or, without one, the standard
\* calendar week of its earliest entry; NULL when it has neither
ResolvedWeekStart(weekId) ==
  LET txs == EntriesOfWeek(weekId)
      earliest == CHOOSE i \in 1..Len(txs) :
                    \A j \in 1..Len(txs) : txs[i].date <= txs[j].date
  IN IF MappingHasId(mapping, weekId) THEN GetWeekStartDateById(Store, weekId)
     ELSE IF txs # <<>> THEN GetWeekStart(txs[earliest].date)
     ELSE NULL

\* C22: getWeeksHistory(limit) returns at most limit entries, by descending
\* start date, no weekId twice, all of them week ids of the closed set or of
\* a stored entry; a candidate with a start date is left out only when limit
\* entries that start no earlier are returned.
C22_HistoryMostRecentWeeks ==
  \A limit \in HistoryLimits :
    LET h == GetWeeksHistory(Store, limit).val
    IN /\ Len(h) <= limit
       /\ \A i, j \in 1..Len(h) :
            /\ i < j => h[i].weekStart >= h[j].weekStart
            /\ i # j => h[i].weekId # h[j].weekId
       /\ \A i \in 1..Len(h) : h[i].weekId \in HistoryCandidates
       /\ \A c \in HistoryCandidates :
            \/ ResolvedWeekStart(c) = NULL
            \/ \E i \in 1..Len(h) : h[i].weekId = c
            \/ /\ Len(h) = limit
               /\ \A i \in 1..Len(h) : h[i].weekStart >= ResolvedWeekStart(c)

\* C23: a week id without a mapping entry and with a stored entry is listed
\* by getWeeksHistory (when limit does not cut it), starting on the Sunday
\* of its earliest entry; a week id with neither is not listed.
C23_HistoryFallsBackToEntries ==
  LET h == GetWeeksHistory(Store, 10).val
  IN \A c \in HistoryCandidates :
       ~MappingHasId(mapping, c) =>
         IF EntriesOfWeek(c) # <<>>
         THEN \E i \in 1..Len(h) :
                /\ h[i].weekId = c
                /\ h[i].weekStart = ResolvedWeekStart(c)
         ELSE \A i \in 1..Len(h) : h[i].weekId # c

\* C24: every entry of getWeeksHistory is flagged closed exactly when its
\* week id is in the closed set, and the entry of a closed week carries the
\* sum and the number of the stored entries of that week id.
C24_HistoryKeepsClosedWeekTotals ==
  \A limit \in HistoryLimits :
    LET h == GetWeeksHistory(Store, limit).val
    IN \A i \in 1..Len(h) :
         /\ h[i].isClosed = SeqContains(closedWeeks, h[i].weekId)
         /\ h[i].isClosed =>
              /\ h[i].total = CalculateTotal(EntriesOfWeek(h[i].weekId))
              /\ h[i].transactionCount = Len(EntriesOfWeek(h[i].weekId))

\* v is a number greater than w
JsGreater(v, w) == v \notin {NULL, NaN, NonNumericText} /\ v > w

\* What the dashboard reads in the current state
CurrentWeekTotal == GetCurrentWeekTotal(Store).val

LimitExceeded == IsWeeklyLimitExceeded(Store).val

LimitUsage == GetWeeklyLimitUsage(Store).val

\* C25: setWeeklyLimit(v) with a positive number v makes getWeeklyLimit()
\* return v; setWeeklyLimit(null) makes getWeeklyLimit() return null,
\* isWeeklyLimitExceeded() false and the usage null, whatever the total of
\* the current week.
C25_WeeklyLimitRoundTrip ==
  [][\A v \in LimitInputs : SetWeeklyLimitStep(v) =>
       /\ (v # NULL /\ JsGreater(v, 0)) => GetWeeklyLimit(Store') = v
       /\ (v = NULL) => /\ GetWeeklyLimit(Store') = NULL
                        /\ LimitExceeded' = FALSE
                        /\ LimitUsage' = NULL]_vars

\* A limit is stored while the week has entries.
C25_Witness == weeklyLimit = 10 /\ CurrentWeekTotal = 7

\* C26: with a limit L and a current-week total T, the limit is exceeded
\* exactly when T > L, and the usage is min(T / L * 100, 100): between 0 and
\* 100, equal to 100 exactly when T >= L, and 100 whenever the limit is
\* exceeded.
C26_ExceededAndUsage ==
  weeklyLimit # NULL =>
    LET L == GetWeeklyLimit(Store)
        T == CurrentWeekTotal
    IN /\ LimitExceeded <=> T > L
       /\ LimitUsage.den = L
       /\ LimitUsage.num = (IF T * 100 <= 100 * L THEN T * 100 ELSE 100 * L)
       /\ 0 <= LimitUsage.num /\ LimitUsage.num <= 100 * LimitUsage.den
       /\ (LimitUsage.num = 100 * LimitUsage.den) <=> (T >= L)
       /\ LimitExceeded => LimitUsage.num = 100 * LimitUsage.den

\* The example of the specification: limit 200, entries of 80 and 130.
C26_Witness ==
  /\ weeklyLimit = 200
  /\ CurrentWeekTotal = 210
  /\ LimitExceeded
  /\ LimitUsage = [num |-> 20000, den |-> 200]

\* C27: setWeeklyLimit throws the validation error for a value that is zero,
\* negative or not a number, null excepted, and then leaves the stored limit
\* as it was.
C27_InvalidLimitRejected ==
  [][\A v \in LimitInputs :
       (SetWeeklyLimitStep(v) /\ v # NULL /\ ~JsGreater(v, 0)) =>
          (lastOutcome' = "ValidationError" /\ weeklyLimit' = weeklyLimit)]_vars

\* A value was refused while a limit was stored.
C27_Witness == lastOutcome = "ValidationError" /\ weeklyLimit # NULL

\* An input the specification has createTransaction refuse
InvalidFormInput(description, amount, dateString) ==
  \/ Trim(description) = <<>>
  \/ ~JsGreater(amount, 0)
  \/ dateString \in {NULL, Unparseable}

\* C28: createTransaction fails with the validation error and stores nothing
\* when the description is empty after trimming, the amount is not a number
\* greater than zero (a non-numeric string included) or the date string is
\* missing or cannot be parsed; so every transaction of the log has a
\* non-empty trimmed description and a positive numeric amount.
C28_InvalidInputRejected ==
  [][/\ \A description \in FormDescriptions : \A amount \in FormAmounts :
          \A dateString \in FormDates :
             (/\ CreateTransactionStep(description, amount, dateString)
              /\ InvalidFormInput(description, amount, dateString))
             => (lastOutcome' = "ValidationError" /\ transactions' = transactions)
     /\ \A i \in 1..Len(transactions') :
          /\ transactions'[i].description # <<>>
          /\ Trim(transactions'[i].description) = transactions'[i].description
          /\ transactions'[i].amount # NULL
          /\ transactions'[i].amount > 0]_vars

\* The log without the entry of the given id, the others in their order
LogWithout(transactionId) ==
  LET other(t) == t.id # transactionId
  IN SelectSeq(transactions, other)

InLog(transactionId) ==
  \E i \in 1..Len(transactions) : transactions[i].id = transactionId

\* C29: removeTransaction(id) removes exactly the transaction of that id and
\* returns true when it is in the log, and returns false with the log as it
\* was otherwise; the other transactions (their weekId included), the closed
\* set, the mapping, the current-week pointer, the next-close date, the
\* schedule and the weekly limit stay as they were.
C29_RemoveExactlyOne ==
  [][\A transactionId \in 1..MaxTx : RemoveTransactionStep(transactionId) =>
       /\ RemoveTransaction(Store, transactionId).val = InLog(transactionId)
       /\ transactions' = LogWithout(transactionId)
       /\ InLog(transactionId) => Len(transactions') = Len(transactions) - 1
       /\ ~InLog(transactionId) => transactions' = transactions
       /\ UNCHANGED <<closedWeeks, mapping, cwStart, cwId, nextClose, config,
                      weeklyLimit>>]_vars

\* The first of two entries was removed and the second is still in the log.
C29_Witness ==
  /\ nextTxId = 3
  /\ Len(transactions) = 1
  /\ transactions[1].id = 2

\* C30: getNextDayOfWeekAfter(date, dayOfWeek), for every date and every
\* weekday 0..6, returns the first calendar day strictly after the date that
\* falls on the weekday: 1 to 7 days after it, and exactly 7 when the date is
\* on that weekday already.
C30_NextDayOfWeekStrictlyAfter ==
  [][GetNextDayOfWeekAfterStep =>
       LET days == DayOf(nextClose') - DayOf(now)
       IN /\ GetDay(nextClose') = config.dayOfWeek
          /\ days \in 1..7
          /\ \A k \in 1..(days - 1) : GetDay(AddDays(now, k)) # config.dayOfWeek
          /\ GetDay(now) = config.dayOfWeek => days = 7]_vars

\* The date was on the weekday asked for, and the answer is a week later.
C30_Witness ==
  /\ nextClose # NULL
  /\ GetDay(now) = config.dayOfWeek
  /\ now % 24 = 23
  /\ DayOf(nextClose) = DayOf(now) + 7

\* The instants of the Sunday-to-Saturday week that starts at weekStart
InstantsOfWeek(weekStart) == weekStart..(weekStart + 7 * 24 - 1)

\* C31: getWeekStart(date) is the Sunday on or before the date, 0 to 6 days
\* earlier, at local midnight; applying it again changes nothing; every date
\* of the same Sunday-to-Saturday week gives the same result; getWeekEnd(date)
\* is getWeekStart(date) plus 6 days, at the end of the day.
C31_WeekStartAndEnd ==
  [][/\ GetWeekStartStep =>
          /\ GetDay(cwStart') = 0
          /\ cwStart' % 24 = 0
          /\ cwStart' <= now
          /\ DayOf(now) - DayOf(cwStart') \in 0..6
          /\ GetWeekStart(cwStart') = cwStart'
          /\ \A t \in InstantsOfWeek(cwStart') : GetWeekStart(t) = cwStart'
     /\ GetWeekEndStep =>
          /\ DayOf(nextClose') = DayOf(GetWeekStart(now)) + 6
          /\ nextClose' % 24 = 23]_vars

\* A Saturday in its last hour: the start is six days earlier at midnight and
\* the end is that same hour.
C31_Witness ==
  /\ GetDay(now) = 6
  /\ now % 24 = 23
  /\ cwStart = now - (6 * 24 + 23)
  /\ nextClose = now

\* C32: isDateInCurrentWeekPeriod(date, start, end) is true exactly when the
\* calendar day of the date is on or after the day of the start and on or
\* before the day of the end, whatever the times of day.
C32_PeriodInclusiveByDay ==
  [][IsDateInCurrentWeekPeriodStep =>
       ((lastOutcome' = "inside") <=>
          (DayOf(cwStart) <= DayOf(now) /\ DayOf(now) <= DayOf(nextClose)))]_vars

\* A date in the last hour of the day of the end, the end given at midnight.
C32_Witness ==
  /\ lastOutcome = "inside"
  /\ DayOf(now) = DayOf(nextClose)
  /\ now % 24 = 23
  /\ nextClose % 24 = 0

\* C33: a protected page (home, dashboard, admin) is never rendered while
\* there is no session, under any interleaving of navigation requests, page
\* loads that complete, logins and logouts.
C33_ProtectedPageNeedsSession ==
  (lastOutcome = "rendered" /\ router.rendered \in ProtectedPages)
     => IsAuthenticated(router)

\* C34: every weekId of a stored transaction and every weekId of the closed
\* set has an entry in the weekId -> start date mapping.
C34_ReferencedWeeksAreMapped ==
  /\ \A i \in 1..Len(transactions) : MappingHasId(mapping, transactions[i].weekId)
  /\ \A i \in 1..Len(closedWeeks) : MappingHasId(mapping, closedWeeks[i])

\* After an automatic close: a closed week and entries of two weeks, while
\* the stored pointer is an id the mapping does not hold.
C34_Witness ==
  /\ lastOutcome = "auto"
  /\ closedWeeks # <<>>
  /\ Len(transactions) = 2
  /\ transactions[1].weekId # transactions[2].weekId
  /\ ~MappingHasId(mapping, cwId)

\* What getWeeksHistory returns in the current state, every week asked for
History == GetWeeksHistory(Store, 10).val

RECURSIVE SumOfTotals(_)
SumOfTotals(ws) ==
  IF ws = <<>> THEN 0 ELSE Head(ws).total + SumOfTotals(Tail(ws))

RECURSIVE SumOfCounts(_)
SumOfCounts(ws) ==
  IF ws = <<>> THEN 0 ELSE Head(ws).transactionCount + SumOfCounts(Tail(ws))

\* C35: with a limit that covers every week, the totals of the entries of
\* getWeeksHistory add up to the sum of the amounts of all stored
\* transactions, and their transactionCount to the number of stored
\* transactions: each transaction is counted in exactly one entry.
C35_HistoryConservesLedger ==
  /\ SumOfTotals(History) = CalculateTotal(transactions)
  /\ SumOfCounts(History) = Len(transactions)

\* A step of one of the six queries
QueryStep ==
  \/ \E query \in Queries : QueryCurrentWeekStep(query)
  \/ \E limit \in HistoryLimits : GetWeeksHistoryStep(limit)
  \/ IsCurrentWeekClosedStep

\* C36: getCurrentWeekTransactions, getCurrentWeekTotal, getWeeksHistory,
\* isCurrentWeekClosed, isWeeklyLimitExceeded and getWeeklyLimitUsage leave
\* the transaction log, the closed set, the stored current-week start, the
\* next-close date, the schedule and the weekly limit as they were; they
\* write at most new mapping entries and the re-derived current-week id.
C36_QueriesWriteOnlyMappingAndPointer ==
  [][QueryStep =>
       /\ UNCHANGED <<transactions, closedWeeks, cwStart, nextClose, config,
                      weeklyLimit>>
       /\ Len(mapping') >= Len(mapping)
       /\ SubSeq(mapping', 1, Len(mapping)) = mapping]_vars

\* A query has just re-derived the pointer and added a mapping entry on a
\* store with a closed week and an entry.
C36_Witness ==
  /\ lastOutcome = "none"
  /\ closedWeeks # <<>>
  /\ transactions # <<>>
  /\ cwStart # NULL
  /\ MappingHasId(mapping, cwId)
  /\ mapping[Len(mapping)].id = cwId
  /\ ~SeqContains(closedWeeks, cwId)
  /\ \A i \in 1..Len(transactions) : transactions[i].weekId # cwId

\* C37: for every local-midnight date d and every timezone offset,
\* getWeekStartDateById(getOrCreateWeekId(d)) is d, and a second
\* getOrCreateWeekId(d) returns the same weekId and adds no mapping entry.
C37_MappingRoundTrip ==
  [][GetOrCreateWeekIdStep =>
       LET weekId == GetOrCreateWeekId(Store, Today).val
       IN /\ GetWeekStartDateById(Store', weekId) = Today
          /\ GetOrCreateWeekId(Store', Today).val = weekId
          /\ GetOrCreateWeekId(Store', Today).s = Store']_vars

\* C38: at the end of every successful close (a manual closeWeek, a
\* checkAndAutoCloseWeek that returns true) the stored current-week id has a
\* mapping entry whose start date is the stored current-week start, so that
\* getCurrentWeekId() returns the stored id and writes nothing.
C38_PointerConsistentAfterClose ==
  lastOutcome \in {"manual", "manualAgain", "auto"} =>
    /\ MappingHasId(mapping, cwId)
    /\ GetWeekStartDateById(Store, cwId) = cwStart
    /\ GetCurrentWeekId(Store) = [s |-> Store, val |-> cwId]

====
